---- MODULE Spec2Model ----
(***************************************************************************)
(* The admin-list contract of "Cluster 1_Week 1/Code Journal": a CosmWasm  *)
(* contract keeping one storage item, ADMINS : Item<Vec<Addr>>, with the   *)
(* entry points instantiate, execute (AddMembers, Leave) and query (Greet, *)
(* AdminsList).  Every entry point runs to completion on one message.      *)
(***************************************************************************)
EXTENDS Integers, Sequences, FiniteSets, TLC

\* Longest admin list the model lets the storage hold.
MaxAdmins == 3
\* Longest list of raw identities a message carries.
MaxMsgLen == 2

\* Identities the address validator accepts, and the callers the host supplies.
Addrs == {"admin1", "admin2", "user"}
\* Raw strings a message may carry: the well-formed ones and one ill-formed.
RawIds == Addrs \cup {"x"}
\* Senders of the instantiate message: one that is never made an admin and
\* one that may be.
Deployers == {"owner", "admin1"}

VARIABLES ADMINS, last

vars == <<ADMINS, last>>

----------------------------------------------------------------------------
\* Sequences over S of length 0..n.
SeqUpTo(S, n) == UNION {[1..k -> S] : k \in 0..n}

\* Results: Ok(value) and Err(error).
Ok(v) == [ok |-> TRUE, val |-> v]
Err(e) == [ok |-> FALSE, err |-> e]

\* Errors of the contract.
NotFound == [kind |-> "NotFound"]
GenericErr == [kind |-> "GenericErr"]
Unauthorized(sender) == [kind |-> "Unauthorized", sender |-> sender]

\* Response::new(): the empty acknowledgment.
Response == [type |-> "Response"]

\* The storage item: absent until first saved.
Empty == [some |-> FALSE, val |-> <<>>]
load(item) == IF item.some THEN Ok(item.val) ELSE Err(NotFound)
save(item, v) == [some |-> TRUE, val |-> v]

\* deps.api.addr_validate: the validated Addr of a well-formed raw string,
\* an error for any other.
addr_validate(raw) == IF raw \in Addrs THEN Ok(raw) ELSE Err(GenericErr)

\* .into_iter().map(addr_validate).collect::<StdResult<Vec<_>>>():
\* the first error, or all the validated values in order.
RECURSIVE collect(_)
collect(raws) ==
    IF raws = <<>> THEN Ok(<<>>)
    ELSE LET h == addr_validate(Head(raws)) IN
         IF ~h.ok THEN h
         ELSE LET t == collect(Tail(raws)) IN
              IF ~t.ok THEN t ELSE Ok(<<h.val>> \o t.val)

\* Vec::contains
contains(v, x) == \E i \in 1..Len(v) : v[i] = x

\* .into_iter().filter(|admin| *admin != sender).collect()
RECURSIVE filter_ne(_, _)
filter_ne(v, sender) ==
    IF v = <<>> THEN <<>>
    ELSE IF Head(v) # sender THEN <<Head(v)>> \o filter_ne(Tail(v), sender)
         ELSE filter_ne(Tail(v), sender)

----------------------------------------------------------------------------
\* What a handler hands back: the storage it leaves and its result.
Out(storage, res) == [storage |-> storage, res |-> res]

\* Variants of the handlers, each with one slip of the kind the claims rule out.
\* Keeps going past an ill-formed identity and returns the well-formed ones.
RECURSIVE collect_valid(_)
collect_valid(raws) ==
    IF raws = <<>> THEN <<>>
    ELSE LET h == addr_validate(Head(raws)) IN
         IF h.ok THEN <<h.val>> \o collect_valid(Tail(raws))
         ELSE collect_valid(Tail(raws))

\* Appends only the values not yet in the list.
RECURSIVE append_new(_, _)
append_new(v, w) ==
    IF w = <<>> THEN v
    ELSE IF contains(v, Head(w)) THEN append_new(v, Tail(w))
         ELSE append_new(Append(v, Head(w)), Tail(w))

\* Removes the first occurrence only.
RECURSIVE remove_first(_, _)
remove_first(v, sender) ==
    IF v = <<>> THEN <<>>
    ELSE IF Head(v) = sender THEN Tail(v)
         ELSE <<Head(v)>> \o remove_first(Tail(v), sender)

\* instantiate that extends a list already stored instead of replacing it.
instantiate_extend(storage, sender, admins) ==
    LET validated == collect(admins) IN
    IF ~validated.ok THEN Out(storage, validated)
    ELSE Out(save(storage, storage.val \o validated.val), Ok(Response))

\* instantiate that saves the well-formed entries before reporting the error.
instantiate_partial(storage, sender, admins) ==
    LET validated == collect(admins) IN
    IF ~validated.ok THEN Out(save(storage, collect_valid(admins)), validated)
    ELSE Out(save(storage, validated.val), Ok(Response))

\* instantiate: validate every raw identity, then save the validated list.
instantiate(storage, sender, admins) ==
    LET validated == collect(admins) IN
    IF ~validated.ok THEN Out(storage, validated)
    ELSE Out(save(storage, validated.val), Ok(Response))

\* add_members without the sender check.
add_members_unchecked(storage, sender, admins) ==
    LET curr_admins == load(storage) IN
    IF ~curr_admins.ok THEN Out(storage, curr_admins)
    ELSE LET validated == collect(admins) IN
         IF ~validated.ok THEN Out(storage, validated)
         ELSE Out(save(storage, curr_admins.val \o validated.val),
                  Ok(Response))

\* add_members that validates before it checks the sender.
add_members_validate_first(storage, sender, admins) ==
    LET curr_admins == load(storage) IN
    IF ~curr_admins.ok THEN Out(storage, curr_admins)
    ELSE LET validated == collect(admins) IN
         IF ~validated.ok THEN Out(storage, validated)
         ELSE IF ~contains(curr_admins.val, sender)
              THEN Out(storage, Err(Unauthorized(sender)))
              ELSE Out(save(storage, curr_admins.val \o validated.val),
                       Ok(Response))

\* add_members that skips identities already in the list.
add_members_dedup(storage, sender, admins) ==
    LET curr_admins == load(storage) IN
    IF ~curr_admins.ok THEN Out(storage, curr_admins)
    ELSE IF ~contains(curr_admins.val, sender)
         THEN Out(storage, Err(Unauthorized(sender)))
         ELSE LET validated == collect(admins) IN
              IF ~validated.ok THEN Out(storage, validated)
              ELSE Out(save(storage, append_new(curr_admins.val, validated.val)),
                       Ok(Response))

\* add_members that saves the well-formed entries before reporting the error.
add_members_partial(storage, sender, admins) ==
    LET curr_admins == load(storage) IN
    IF ~curr_admins.ok THEN Out(storage, curr_admins)
    ELSE IF ~contains(curr_admins.val, sender)
         THEN Out(storage, Err(Unauthorized(sender)))
         ELSE LET validated == collect(admins) IN
              IF ~validated.ok
              THEN Out(save(storage, curr_admins.val \o collect_valid(admins)),
                       validated)
              ELSE Out(save(storage, curr_admins.val \o validated.val),
                       Ok(Response))

\* add_members that appends the raw strings as they came.
add_members_raw(storage, sender, admins) ==
    LET curr_admins == load(storage) IN
    IF ~curr_admins.ok THEN Out(storage, curr_admins)
    ELSE IF ~contains(curr_admins.val, sender)
         THEN Out(storage, Err(Unauthorized(sender)))
         ELSE Out(save(storage, curr_admins.val \o admins), Ok(Response))

\* exec::add_members: load, check the sender, validate, append, save.
add_members(storage, sender, admins) ==
    LET curr_admins == load(storage) IN
    IF ~curr_admins.ok THEN Out(storage, curr_admins)
    ELSE IF ~contains(curr_admins.val, sender)
         THEN Out(storage, Err(Unauthorized(sender)))
         ELSE LET validated == collect(admins) IN
              IF ~validated.ok THEN Out(storage, validated)
              ELSE Out(save(storage, curr_admins.val \o validated.val),
                       Ok(Response))

\* leave that drops one occurrence of the sender.
leave_once(storage, sender) ==
    LET admins == load(storage) IN
    IF ~admins.ok THEN Out(storage, admins)
    ELSE Out(save(storage, remove_first(admins.val, sender)), Ok(Response))

\* leave that also folds repeated identities of the others into one.
leave_dedup(storage, sender) ==
    LET admins == load(storage) IN
    IF ~admins.ok THEN Out(storage, admins)
    ELSE Out(save(storage, append_new(<<>>, filter_ne(admins.val, sender))),
             Ok(Response))

\* leave that removes the item once the list is empty.
leave_remove_empty(storage, sender) ==
    LET admins == load(storage) IN
    IF ~admins.ok THEN Out(storage, admins)
    ELSE IF filter_ne(admins.val, sender) = <<>> THEN Out(Empty, Ok(Response))
         ELSE Out(save(storage, filter_ne(admins.val, sender)), Ok(Response))

\* exec::leave: ADMINS.update with the list filtered of the sender.
leave(storage, sender) ==
    LET admins == load(storage) IN
    IF ~admins.ok THEN Out(storage, admins)
    ELSE Out(save(storage, filter_ne(admins.val, sender)), Ok(Response))

\* greet that words its message after the stored list.
greet_by_state ==
    Ok([message |-> IF ADMINS.val = <<>> THEN "Hello World" ELSE "Hello Admins"])

\* query::greet
greet == Ok([message |-> "Hello World"])

\* admins_list that reports each identity once.
admins_list_dedup(storage) ==
    LET admins == load(storage) IN
    IF ~admins.ok THEN admins ELSE Ok([admins |-> append_new(<<>>, admins.val)])

\* query::admins_list
admins_list(storage) ==
    LET admins == load(storage) IN
    IF ~admins.ok THEN admins ELSE Ok([admins |-> admins.val])

\* The messages.
AddMembersMsg(admins) == [type |-> "AddMembers", admins |-> admins]
LeaveMsg == [type |-> "Leave", admins |-> <<>>]
GreetMsg == [type |-> "Greet"]
AdminsListMsg == [type |-> "AdminsList"]

\* execute: dispatch on the message.
execute(storage, sender, msg) ==
    IF msg.type = "AddMembers" THEN add_members(storage, sender, msg.admins)
    ELSE leave(storage, sender)

\* query: dispatch on the message; Deps gives no write access.
query(storage, msg) ==
    IF msg.type = "Greet" THEN greet ELSE admins_list(storage)

----------------------------------------------------------------------------
\* The last call: its entry point and message, the storage before it, and
\* its result.
Call(op, sender, admins, res) ==
    [op |-> op, sender |-> sender, admins |-> admins, pre |-> ADMINS,
     res |-> res]

Init ==
    /\ ADMINS = Empty
    /\ last = [op |-> "none", sender |-> "", admins |-> <<>>, pre |-> Empty,
               res |-> Ok(Response)]

\* The instantiate entry point on InstantiateMsg { admins }.
Instantiate(sender, admins) ==
    LET out == instantiate(ADMINS, sender, admins) IN
    /\ ADMINS' = out.storage
    /\ last' = Call("Instantiate", sender, admins, out.res)

\* The execute entry point on ExecuteMsg::AddMembers { admins }.
AddMembers(sender, admins) ==
    /\ Len(ADMINS.val) + Len(admins) <= MaxAdmins
    /\ LET out == execute(ADMINS, sender, AddMembersMsg(admins)) IN
       /\ ADMINS' = out.storage
       /\ last' = Call("AddMembers", sender, admins, out.res)

\* The execute entry point on ExecuteMsg::Leave {}.
Leave(sender) ==
    LET out == execute(ADMINS, sender, LeaveMsg) IN
    /\ ADMINS' = out.storage
    /\ last' = Call("Leave", sender, <<>>, out.res)

\* The query entry point on QueryMsg::Greet {}.
Greet ==
    /\ last' = Call("Greet", "", <<>>, query(ADMINS, GreetMsg))
    /\ UNCHANGED ADMINS

\* An AdminsList that writes an empty list where it finds none stored.
AdminsList_init ==
    /\ last' = Call("AdminsList", "", <<>>, query(ADMINS, AdminsListMsg))
    /\ ADMINS' = IF ADMINS.some THEN ADMINS ELSE save(ADMINS, <<>>)

\* The query entry point on QueryMsg::AdminsList {}.
AdminsList ==
    /\ last' = Call("AdminsList", "", <<>>, query(ADMINS, AdminsListMsg))
    /\ UNCHANGED ADMINS

\* The entry points, each callable on whatever the storage holds: the code
\* itself guards none of them.
Next ==
    \/ \E sender \in Deployers, admins \in SeqUpTo(RawIds, MaxMsgLen) :
          Instantiate(sender, admins)
    \/ \E sender \in Addrs, admins \in SeqUpTo(RawIds, MaxMsgLen) :
          AddMembers(sender, admins)
    \/ \E sender \in Addrs : Leave(sender)
    \/ Greet
    \/ AdminsList

Spec == Init /\ [][Next]_vars

\* The host's life cycle: a contract is instantiated once, on fresh storage,
\* and takes execute and query messages only once that has succeeded.
Deployed == ADMINS.some

NextHost ==
    \/ \E sender \in Deployers, admins \in SeqUpTo(RawIds, MaxMsgLen) :
          ~Deployed /\ Instantiate(sender, admins)
    \/ \E sender \in Addrs, admins \in SeqUpTo(RawIds, MaxMsgLen) :
          Deployed /\ AddMembers(sender, admins)
    \/ \E sender \in Addrs : Deployed /\ Leave(sender)
    \/ Deployed /\ Greet
    \/ Deployed /\ AdminsList

SpecHost == Init /\ [][NextHost]_vars

----------------------------------------------------------------------------
\* Vocabulary of the properties below.
InList(x, v) == \E i \in DOMAIN v : v[i] = x
WellFormed(raw) == raw \in Addrs
AllWellFormed(raws) == \A i \in DOMAIN raws : WellFormed(raws[i])
Count(x, v) == Cardinality({i \in DOMAIN v : v[i] = x})
Stored(v) == [some |-> TRUE, val |-> v]

\* The last call was AddMembers on initialized storage, by an admin or not.
AddMembersByAdmin ==
    last.op = "AddMembers" /\ last.pre.some /\ InList(last.sender, last.pre.val)
AddMembersByOther ==
    last.op = "AddMembers" /\ last.pre.some /\ ~InList(last.sender, last.pre.val)

\* C1: AddMembers by a caller outside the admin list fails with Unauthorized
\* carrying that caller, and leaves the stored list as it was.
C1_UnauthorizedAddMembers ==
    AddMembersByOther =>
        /\ last.res = Err(Unauthorized(last.sender))
        /\ ADMINS = last.pre

C1_Witness ==
    /\ AddMembersByOther
    /\ last.pre.val # <<>>
    /\ last.admins = <<last.sender>>
    /\ last.res = Err(Unauthorized(last.sender))

\* C2: AddMembers by an admin with well-formed entries succeeds and leaves the
\* old list followed by the entries in the order given, duplicates included.
C2_AddMembersAppends ==
    (AddMembersByAdmin /\ AllWellFormed(last.admins)) =>
        /\ last.res = Ok(Response)
        /\ ADMINS = Stored(last.pre.val \o last.admins)

C2_Witness ==
    /\ AddMembersByAdmin
    /\ last.pre.val = <<"admin1">>
    /\ last.admins = <<"admin1", "admin1">>
    /\ ADMINS.val = <<"admin1", "admin1", "admin1">>

\* C3: Leave on initialized storage succeeds for any caller; a caller who was
\* in the list occurs in it no more, and for any other the list is unchanged.
C3_LeaveRemovesCaller ==
    (last.op = "Leave" /\ last.pre.some) =>
        /\ last.res = Ok(Response)
        /\ ADMINS.some
        /\ ~InList(last.sender, ADMINS.val)
        /\ ~InList(last.sender, last.pre.val) => ADMINS = last.pre

C3_Witness ==
    /\ last.op = "Leave" /\ last.pre.some
    /\ Count(last.sender, last.pre.val) = 2
    /\ Len(last.pre.val) = 3
    /\ Len(ADMINS.val) = 1
    /\ last.res.ok

\* C4: Instantiate with well-formed entries succeeds and stores exactly those
\* entries in order, whatever was stored before, and AdminsList then returns
\* them.
C4_InstantiateStores ==
    (last.op = "Instantiate" /\ AllWellFormed(last.admins)) =>
        /\ last.res = Ok(Response)
        /\ ADMINS = Stored(last.admins)
        /\ query(ADMINS, AdminsListMsg) = Ok([admins |-> last.admins])

C4_Witness ==
    /\ last.op = "Instantiate"
    /\ last.pre.some /\ last.pre.val # <<>>
    /\ last.admins = <<"admin1", "admin2">>
    /\ ADMINS.val = <<"admin1", "admin2">>

\* C5: AddMembers by an admin with an ill-formed entry fails with the
\* validator's error and appends nothing.
C5_AddMembersAllOrNothing ==
    (AddMembersByAdmin /\ ~AllWellFormed(last.admins)) =>
        /\ last.res = Err(GenericErr)
        /\ ADMINS = last.pre

C5_Witness ==
    /\ AddMembersByAdmin
    /\ Len(last.admins) = 2
    /\ WellFormed(last.admins[1]) /\ ~WellFormed(last.admins[2])
    /\ ~last.res.ok
    /\ ADMINS = last.pre

C7_AuthorizationBeforeValidation ==
    (AddMembersByOther /\ ~AllWellFormed(last.admins)) =>
        /\ last.res.ok = FALSE
        /\ last.res.err.kind = "Unauthorized"
        /\ last.res.err.sender = last.sender

C7_Witness ==
    /\ AddMembersByOther
    /\ ~AllWellFormed(last.admins)
    /\ last.res.err.kind = "Unauthorized"

\* C8: Greet answers the message "Hello World" in every state.
C8_GreetFixed ==
    last.op = "Greet" => last.res = Ok([message |-> "Hello World"])

C8_Witness ==
    /\ last.op = "Greet"
    /\ Len(ADMINS.val) = 2
    /\ last.res.val.message = "Hello World"

\* C9: a step that is a query leaves the stored admin list as it was.
C9_QueriesDoNotWrite ==
    [][last'.op \in {"Greet", "AdminsList"} => ADMINS' = ADMINS]_vars

C9_Witness ==
    /\ last.op = "AdminsList"
    /\ ~last.pre.some
    /\ ~ADMINS.some

\* C10: on initialized storage AdminsList returns the stored sequence as it
\* is: same elements, multiplicities and order.
C10_AdminsListVerbatim ==
    (last.op = "AdminsList" /\ last.pre.some) =>
        last.res = Ok([admins |-> last.pre.val])

C10_Witness ==
    /\ last.op = "AdminsList"
    /\ last.pre.val = <<"admin2", "admin1", "admin2">>
    /\ last.res.val.admins = <<"admin2", "admin1", "admin2">>


\* C11: Instantiate succeeds only for a caller who is one of the admins it
\* stores.
C11_OnlyAdminInstantiates ==
    (last.op = "Instantiate" /\ last.res.ok) => InList(last.sender, ADMINS.val)


\* C12: every stored identity is a value the validator returns, and a
\* successful Instantiate or AddMembers ends the list with the validator's
\* values for its entries, each of which it accepted.
C12_OnlyValidatedStored ==
    /\ \A i \in DOMAIN ADMINS.val :
          addr_validate(ADMINS.val[i]) = Ok(ADMINS.val[i])
    /\ (last.op \in {"Instantiate", "AddMembers"} /\ last.res.ok) =>
          \A i \in DOMAIN last.admins :
             /\ addr_validate(last.admins[i]).ok
             /\ ADMINS.val[Len(ADMINS.val) - Len(last.admins) + i]
                   = addr_validate(last.admins[i]).val

C12_Witness ==
    /\ last.op = "AddMembers" /\ last.res.ok
    /\ Len(last.pre.val) = 1
    /\ Len(last.admins) = 2
    /\ Len(ADMINS.val) = 3


\* C13: after Leave the list is the earlier list with the caller's entries
\* taken out: every other identity keeps its occurrences and its place
\* relative to the others.
C13_LeaveTouchesOnlyCaller ==
    (last.op = "Leave" /\ last.pre.some) =>
        /\ ADMINS.val = SelectSeq(last.pre.val, LAMBDA a : a # last.sender)
        /\ \A a \in Addrs \ {last.sender} :
              Count(a, ADMINS.val) = Count(a, last.pre.val)

C13_Witness ==
    /\ last.op = "Leave"
    /\ last.sender = "admin1"
    /\ last.pre.val = <<"admin2", "admin1", "admin2">>
    /\ ADMINS.val = <<"admin2", "admin2">>

\* C14: no step takes initialized storage back to uninitialized.
C14_StaysInitialized ==
    [][ADMINS.some => ADMINS'.some]_vars

C14_Witness ==
    /\ last.op = "Leave"
    /\ last.pre.val # <<>>
    /\ ADMINS.some
    /\ ADMINS.val = <<>>

\* C15: from an initialized, empty admin list every step leaves the list
\* empty, and an AddMembers step answers Unauthorized to its caller.
C15_EmptyIsAbsorbing ==
    [][(ADMINS.some /\ ADMINS.val = <<>>) =>
          /\ ADMINS' = ADMINS
          /\ last'.op = "AddMembers" =>
                last'.res = Err(Unauthorized(last'.sender))]_vars

C15_Witness ==
    /\ last.op = "AddMembers"
    /\ last.pre.some /\ last.pre.val = <<>>
    /\ last.admins = <<last.sender>>
    /\ last.res = Err(Unauthorized(last.sender))
    /\ ADMINS.val = <<>>

\* C16: an identity gains an occurrence in the list only in a step that is
\* an Instantiate naming it, or an AddMembers naming it whose caller was in
\* the list before the step.
C16_MembershipOnlyThroughAdmin ==
    [][\A a \in RawIds :
          Count(a, ADMINS'.val) > Count(a, ADMINS.val) =>
             /\ InList(a, last'.admins)
             /\ \/ last'.op = "Instantiate"
                \/ /\ last'.op = "AddMembers"
                   /\ InList(last'.sender, ADMINS.val)]_vars

C16_Witness ==
    /\ last.op = "AddMembers" /\ last.res.ok
    /\ last.sender = "admin1"
    /\ last.pre.val = <<"admin1">>
    /\ last.admins = <<"user">>
    /\ ADMINS.val = <<"admin1", "user">>

====
